---------------------------- MODULE Spec2Model ----------------------------
(***************************************************************************)
(* Model of the HTTP load generator in its two deployment shapes:          *)
(*   - src/server.py      the controllable background job (start / stop /  *)
(*                        status over one global _state and _tasks)        *)
(*   - src/cli_runner.py  the one-shot command-line Runner with its        *)
(*                        token bucket                                     *)
(*                                                                         *)
(* Both run on one asyncio event loop: code between two awaits is atomic,  *)
(* so every action below is the code from one suspension point of a task   *)
(* (or from the entry of a handler) to its next suspension point.          *)
(* Task.cancel() marks a pending task; CancelledError is thrown into it at *)
(* the await it is suspended on when it next runs.  CancelledError is a    *)
(* BaseException and is therefore not caught by `except Exception`.        *)
(*                                                                         *)
(* Time is the reading of time.time() in whole seconds (variable now),     *)
(* counted from the moment the program starts; asyncio.sleep(d) ends at    *)
(* the first whole second that is at least d later, or up to MaxLate       *)
(* seconds after it.                                                       *)
(*                                                                         *)
(* Left out, as they write none of the modelled state: the reporter task   *)
(* of Runner.run (it only reads the counters), Runner.report, the index    *)
(* page, the text of response bodies and their truncation, and the 10 s    *)
(* timeout of client.get (one of the ways a request raises).               *)
(***************************************************************************)
EXTENDS Integers, Sequences, FiniteSets, TLC

(* ------------------------------ bounds ------------------------------ *)
\* last clock reading explored
MaxTime == 1
\* largest concurrency / duration submitted to /start
MaxConc == 2
MaxDur == 1
\* accepted /start requests explored
MaxRuns == 2
\* requests one worker loop issues (the loops themselves are unbounded)
MaxIter == 2
\* command-line run: last clock reading, largest --concurrency and --duration
CliMaxTime == 6
CliMaxConc == 3
CliMaxDur == 2
\* seconds a sleeping task may oversleep before the clock moves on
MaxLate == 1
\* seconds the target takes at most to answer a request of the command-line run
MaxLatency == 1

(* ------------------------------ values ------------------------------ *)
\* Python's None, and a present Optional value
None == <<>>
Some(x) == <<x>>

\* the inputs of /start: Form(...) ints are not validated
Concurrencies == (-1)..MaxConc
Durations == 0..MaxDur
\* status codes a response can carry
StatusCodes == {200, 300}
\* what awaiting client.get can produce: a response, or a raised Exception
Outcomes == {Some(c) : c \in StatusCodes} \cup {None}

\* --rps in half requests per second: 0 (unlimited), 0.5, 1 and 2 rps.
\* Token amounts are counted in half tokens, so that `elapsed * rps` is exact.
Rates == {0, 1, 2, 4}
\* the literal 1.0 (one token) of cli_runner.py, in half tokens
OneToken == 2
CliConcurrencies == 0..CliMaxConc
CliDurations == 0..CliMaxDur
CliWorkers == 1..CliMaxConc

Runs == 1..MaxRuns
Workers == 1..MaxConc
\* a task of run r: index 0 is the controller (_run_load), i > 0 a loop_worker
Controller(r) == <<r, 0>>
WorkerTask(r, i) == <<r, i>>

VARIABLES
    shape,      \* "server" or "cli": which program is running
    now,        \* time.time()
    _state,     \* server.py: the shared _state dict
    _tasks,     \* server.py: the global _tasks list (as a set of task ids)
    ctl,        \* server.py: per run, the _run_load controller task
    wk,         \* server.py: per run and index, the loop_worker task
    nruns,      \* server.py: number of accepted /start requests so far
    resp,       \* server.py: the HTTP response of the handler that ran in
                \* the last step (NoResp after a step of any task)
    runner,     \* cli_runner.py: the fields of the Runner object
    main,       \* cli_runner.py: Runner.run, its position and its end_time
    cw,         \* cli_runner.py: per index, the Runner.worker task
    hist,       \* history of the current run: the latencies of the recorded
                \* outcomes, per worker index how many it recorded, and when
                \* the last token was consumed
    stopped     \* history: the runs during which a /stop was accepted

server_vars == <<_state, _tasks, ctl, wk, nruns, resp, stopped>>
cli_vars == <<runner, main, cw>>
vars ==
    <<shape, now, _state, _tasks, ctl, wk, nruns, resp, runner, main, cw, hist,
      stopped>>

(* ------------------------- server.py: state ------------------------- *)
InitState ==
    [running |-> FALSE, total_requests |-> 0, success |-> 0, failure |-> 0,
     total_time |-> 0, start_time |-> None, end_time |-> None,
     last_response |-> None]

NoController ==
    [pc |-> "none", must_cancel |-> FALSE, concurrency |-> 0, duration |-> 0,
     end_time |-> 0]
NoWorker == [pc |-> "none", must_cancel |-> FALSE, start |-> 0, n |-> 0]
\* a finished task keeps nothing but being done
DoneController == [NoController EXCEPT !.pc = "done"]
DoneWorker == [NoWorker EXCEPT !.pc = "done"]

NoHist ==
    [latency |-> 0, completed |-> [i \in Workers \cup CliWorkers |-> 0],
     consumed_at |-> None]
NoResp == [op |-> "none", code |-> 0, body |-> None]

ServerInit ==
    /\ _state = InitState
    /\ _tasks = {}
    /\ ctl = [r \in Runs |-> NoController]
    /\ wk = [r \in Runs |-> [i \in Workers |-> NoWorker]]
    /\ nruns = 0
    /\ resp = NoResp
    /\ stopped = {}

\* for t in _tasks: if not t.done(): t.cancel()
\* (a cancelled worker never reads its locals again: they are dropped)
CancelCtl(c, ts) ==
    [r \in Runs |->
        IF Controller(r) \in ts /\ c[r].pc # "done"
        THEN [c[r] EXCEPT !.must_cancel = TRUE] ELSE c[r]]
\* a cancellation that reaches no worker
CancelWk_none(w, ts) == w

CancelWk(w, ts) ==
    [r \in Runs |-> [i \in Workers |->
        IF WorkerTask(r, i) \in ts /\ w[r][i].pc # "done"
        THEN [pc |-> w[r][i].pc, must_cancel |-> TRUE, start |-> 0, n |-> 0]
        ELSE w[r][i]]]

(* ----------------------- server.py: handlers ------------------------ *)
\* POST /start, line 41: the request is refused
StartRejected ==
    /\ resp' = [op |-> "start", code |-> 400,
                body |-> [error |-> "test already running"]]
    /\ UNCHANGED <<_state, _tasks, ctl, wk, nruns, hist, stopped>>

\* an accepted start that sets the lifecycle fields of lines 44, 49 and 50
\* and leaves the counters of the previous run in place
StartAccepted_keeps(concurrency, duration) ==
    /\ nruns < MaxRuns
    /\ _state' = [_state EXCEPT !.running = TRUE,
                                !.start_time = Some(now),
                                !.end_time = None]
    /\ nruns' = nruns + 1
    /\ ctl' = [CancelCtl(ctl, _tasks) EXCEPT ![nruns + 1] =
                  [pc |-> "new", must_cancel |-> FALSE,
                   concurrency |-> concurrency, duration |-> duration,
                   end_time |-> 0]]
    /\ wk' = CancelWk(wk, _tasks)
    /\ _tasks' = {Controller(nruns + 1)}
    /\ hist' = NoHist
    /\ resp' = [op |-> "start", code |-> 200, body |-> [status |-> "started"]]
    /\ UNCHANGED stopped

\* POST /start, lines 43-68: the state is reset, the leftover tasks are
\* cancelled and the controller task of the new run is created
StartAccepted(concurrency, duration) ==
    /\ nruns < MaxRuns
    /\ _state' = [running |-> TRUE, total_requests |-> 0, success |-> 0,
                  failure |-> 0, total_time |-> 0,
                  start_time |-> Some(now), end_time |-> None,
                  last_response |-> None]
    /\ nruns' = nruns + 1
    /\ ctl' = [CancelCtl(ctl, _tasks) EXCEPT ![nruns + 1] =
                  [pc |-> "new", must_cancel |-> FALSE,
                   concurrency |-> concurrency, duration |-> duration,
                   end_time |-> 0]]
    /\ wk' = CancelWk(wk, _tasks)
    /\ _tasks' = {Controller(nruns + 1)}
    /\ hist' = NoHist
    /\ resp' = [op |-> "start", code |-> 200, body |-> [status |-> "started"]]
    /\ UNCHANGED stopped

\* a start_test without the check of line 40
start_test_unguarded(concurrency, duration) ==
    /\ shape = "server"
    /\ StartAccepted(concurrency, duration)
    /\ UNCHANGED <<shape, now, cli_vars>>

start_test(concurrency, duration) ==
    /\ shape = "server"
    /\ IF _state.running
       THEN StartRejected
       ELSE StartAccepted(concurrency, duration)
    /\ UNCHANGED <<shape, now, cli_vars>>

\* POST /stop, line 157: the request is refused
StopRejected ==
    /\ resp' = [op |-> "stop", code |-> 400, body |-> [status |-> "not running"]]
    /\ UNCHANGED <<_state, _tasks, ctl, wk, nruns, hist, stopped>>

\* a stop that also clears the counters
StopAccepted_clears ==
    /\ _state' = [_state EXCEPT !.running = FALSE, !.end_time = Some(now),
                                !.total_requests = 0, !.success = 0,
                                !.failure = 0]
    /\ ctl' = CancelCtl(ctl, _tasks)
    /\ wk' = CancelWk(wk, _tasks)
    /\ _tasks' = {}
    /\ resp' = [op |-> "stop", code |-> 200, body |-> [status |-> "stopped"]]
    /\ stopped' = stopped \cup {nruns}
    /\ UNCHANGED <<nruns, hist>>

\* POST /stop, lines 158-166
StopAccepted ==
    /\ _state' = [_state EXCEPT !.running = FALSE, !.end_time = Some(now)]
    /\ ctl' = CancelCtl(ctl, _tasks)
    /\ wk' = CancelWk(wk, _tasks)
    /\ _tasks' = {}
    /\ resp' = [op |-> "stop", code |-> 200, body |-> [status |-> "stopped"]]
    /\ stopped' = stopped \cup {nruns}
    /\ UNCHANGED <<nruns, hist>>

\* a stop_test without the check of line 156
stop_test_unguarded ==
    /\ shape = "server"
    /\ StopAccepted
    /\ UNCHANGED <<shape, now, cli_vars>>

stop_test ==
    /\ shape = "server"
    /\ IF ~_state.running THEN StopRejected ELSE StopAccepted
    /\ UNCHANGED <<shape, now, cli_vars>>

\* GET /status
status ==
    /\ shape = "server"
    /\ resp' = [op |-> "status", code |-> 200, body |->
                 [running |-> _state.running,
                  total_requests |-> _state.total_requests,
                  success |-> _state.success,
                  failure |-> _state.failure,
                  average_response_time |->
                      IF _state.total_requests > 0
                      THEN Some(<<_state.total_time, _state.total_requests>>)
                      ELSE None,
                  \* line 75: a time.time() reading is never 0, so a
                  \* start_time is falsy only when it is None
                  elapsed |->
                      IF _state.start_time # None
                      THEN Some(now - _state.start_time[1]) ELSE None,
                  last_response |-> _state.last_response]]
    /\ UNCHANGED <<shape, now, _state, _tasks, ctl, wk, nruns, hist, cli_vars, stopped>>

(* ------------------------ server.py: _worker ------------------------ *)
IsSuccess(status_code) == 200 <= status_code /\ status_code < 300

\* lines 99-112: a response arrived after `elapsed` seconds
RecordResponse(st, status_code, elapsed) ==
    [st EXCEPT !.total_requests = @ + 1,
               !.total_time = @ + elapsed,
               !.success = IF IsSuccess(status_code) THEN @ + 1 ELSE @,
               !.failure = IF IsSuccess(status_code) THEN @ ELSE @ + 1,
               !.last_response =
                   Some([status_code |-> Some(status_code), body |-> "text"])]

\* an except branch that forgets `failure += 1`
RecordException_uncounted(st) ==
    [st EXCEPT !.total_requests = @ + 1,
               !.last_response =
                   Some([status_code |-> None, body |-> "exception"])]

\* lines 113-116: client.get raised an Exception
RecordException(st) ==
    [st EXCEPT !.total_requests = @ + 1,
               !.failure = @ + 1,
               !.last_response =
                   Some([status_code |-> None, body |-> "exception"])]

\* what the history adds for one recorded outcome of latency `elapsed`
Noted(h, i, elapsed) ==
    [h EXCEPT !.latency = @ + elapsed, !.completed[i] = @ + 1]

\* loop_worker, from its start or from `await asyncio.sleep(0)` up to
\* `await client.get(...)` inside _worker, or to its end
loop_worker(r, i) ==
    /\ shape = "server"
    /\ wk[r][i].pc \in {"new", "yield"}
    /\ IF wk[r][i].must_cancel
       THEN wk' = [wk EXCEPT ![r][i] = DoneWorker]
       ELSE IF now < ctl[r].end_time /\ _state.running
       THEN /\ wk[r][i].n < MaxIter
            /\ wk' = [wk EXCEPT ![r][i].pc = "get", ![r][i].start = now]
       ELSE wk' = [wk EXCEPT ![r][i] = DoneWorker]
    /\ resp' = NoResp
    /\ UNCHANGED <<shape, now, _state, _tasks, ctl, nruns, hist, cli_vars, stopped>>

\* a _worker whose failure ends the loop_worker that called it
_worker_fatal(r, i, outcome) ==
    /\ shape = "server"
    /\ wk[r][i].pc = "get"
    /\ outcome = None
    /\ wk' = [wk EXCEPT ![r][i] = DoneWorker]
    /\ resp' = NoResp
    /\ UNCHANGED <<shape, now, _state, hist, _tasks, ctl, nruns, cli_vars, stopped>>

\* a _worker whose `except` of line 113 also catches the CancelledError of
\* a cancelled request and records it as a failure
_worker_catches_cancel(r, i, outcome) ==
    /\ shape = "server"
    /\ wk[r][i].pc = "get"
    /\ IF wk[r][i].must_cancel
       THEN /\ _state' = RecordException(_state)
            /\ hist' = Noted(hist, i, 0)
            /\ wk' = [wk EXCEPT ![r][i] = DoneWorker]
       ELSE /\ _state' = IF outcome = None
                         THEN RecordException(_state)
                         ELSE RecordResponse(_state, outcome[1],
                                             now - wk[r][i].start)
            /\ hist' = Noted(hist, i, now - wk[r][i].start)
            /\ wk' = [wk EXCEPT ![r][i].pc = "yield", ![r][i].start = 0,
                                ![r][i].n = @ + 1]
    /\ resp' = NoResp
    /\ UNCHANGED <<shape, now, _tasks, ctl, nruns, cli_vars, stopped>>

\* _worker, from the completion of `await client.get(...)` up to
\* `await asyncio.sleep(0)` in loop_worker
_worker(r, i, outcome) ==
    /\ shape = "server"
    /\ wk[r][i].pc = "get"
    /\ IF wk[r][i].must_cancel
       THEN /\ wk' = [wk EXCEPT ![r][i] = DoneWorker]
            /\ UNCHANGED <<_state, hist>>
       ELSE /\ _state' = IF outcome = None
                         THEN RecordException(_state)
                         ELSE RecordResponse(_state, outcome[1],
                                             now - wk[r][i].start)
            /\ hist' = Noted(hist, i, now - wk[r][i].start)
            /\ wk' = [wk EXCEPT ![r][i].pc = "yield", ![r][i].start = 0,
                                ![r][i].n = @ + 1]
    /\ resp' = NoResp
    /\ UNCHANGED <<shape, now, _tasks, ctl, nruns, cli_vars, stopped>>

(* ------------------------ server.py: _run_load ---------------------- *)
WorkersOf(r) == 1..ctl[r].concurrency

\* _run_load from its start up to `await asyncio.gather(*workers)`
run_load_begin(r) ==
    /\ shape = "server"
    /\ ctl[r].pc = "new"
    /\ IF ctl[r].must_cancel \/ ctl[r].concurrency < 0
       THEN \* cancelled before its first step, or Semaphore(concurrency)
            \* raised ValueError: the task ends without touching _state
            /\ ctl' = [ctl EXCEPT ![r] = DoneController]
            /\ UNCHANGED <<wk, _tasks>>
       ELSE /\ ctl' = [ctl EXCEPT
                          ![r].end_time = now + ctl[r].duration,
                          ![r].pc = IF ctl[r].concurrency = 0
                                    THEN "closing" ELSE "gather"]
            /\ wk' = [wk EXCEPT ![r] = [i \in Workers |->
                          IF i \in WorkersOf(r)
                          THEN [NoWorker EXCEPT !.pc = "new"] ELSE wk[r][i]]]
            /\ _tasks' = _tasks \cup {WorkerTask(r, i) : i \in WorkersOf(r)}
    /\ resp' = NoResp
    /\ UNCHANGED <<shape, now, _state, nruns, hist, cli_vars, stopped>>

\* `await asyncio.gather(*workers)` completes once every worker is done,
\* normally or (the controller or a worker was cancelled) with
\* CancelledError, which lines 139-143 swallow; lines 141-148 find no
\* worker left to cancel.  Control reaches the exit of `async with`.
run_load_gathered(r) ==
    /\ shape = "server"
    /\ ctl[r].pc = "gather"
    /\ \A i \in WorkersOf(r) : wk[r][i].pc = "done"
    /\ ctl' = [ctl EXCEPT ![r].pc = "closing", ![r].must_cancel = FALSE]
    /\ resp' = NoResp
    /\ UNCHANGED <<shape, now, _state, _tasks, wk, nruns, hist, cli_vars, stopped>>

\* the client is closed; lines 150-151, unless cancelled while closing
run_load_finish(r) ==
    /\ shape = "server"
    /\ ctl[r].pc = "closing"
    /\ ctl' = [ctl EXCEPT ![r] = DoneController]
    /\ IF ctl[r].must_cancel
       THEN UNCHANGED _state
       ELSE _state' = [_state EXCEPT !.running = FALSE,
                                     !.end_time = Some(now)]
    /\ resp' = NoResp
    /\ UNCHANGED <<shape, now, _tasks, wk, nruns, hist, cli_vars, stopped>>

(* ----------------------- cli_runner.py: Runner --------------------- *)
\* Runner.__init__ followed by `r.rps = float(args.rps)` in main
NewRunner(concurrency, duration, rps) ==
    [concurrency |-> concurrency, duration |-> duration, rps |-> rps,
     _tokens |-> 0, _last_fill |-> now,
     total |-> 0, success |-> 0, failure |-> 0, total_time |-> 0,
     last_response |-> None]

NoCliWorker == [pc |-> "none", wake_at |-> 0, start |-> 0]
DoneCliWorker == [NoCliWorker EXCEPT !.pc = "done"]

CliIdle ==
    /\ runner = NewRunner(0, 0, 0)
    /\ main = [pc |-> "none", end_time |-> 0]
    /\ cw = [i \in CliWorkers |-> NoCliWorker]

CliInit ==
    /\ \E c \in CliConcurrencies, d \in CliDurations, rps \in Rates :
           runner = NewRunner(c, d, rps)
    /\ main = [pc |-> "init", end_time |-> 0]
    /\ cw = [i \in CliWorkers |-> NoCliWorker]

Min(a, b) == IF a < b THEN a ELSE b
Max(a, b) == IF a < b THEN b ELSE a
\* the least whole number of seconds that is >= a / b
CeilDiv(a, b) == (a + b - 1) \div b

\* lines 48-54: the refill on entering _one, capped to 2 s worth of tokens
Refill(rn) ==
    [rn EXCEPT !._tokens = Min(@ + (now - rn._last_fill) * rn.rps, rn.rps * 2),
               !._last_fill = now]
\* lines 66-69: the refill after a sleep in the wait loop
RefillWaiting(rn) ==
    [rn EXCEPT !._tokens = @ + (now - rn._last_fill) * rn.rps,
               !._last_fill = now]
\* lines 60-65: the clock reading at which asyncio.sleep(max(0.01, wait)) ends
WakeAt(rn) == now + Max(1, CeilDiv(OneToken - rn._tokens, rn.rps))
\* a line 71 that takes nothing out of the bucket
Consume_free(rn) == rn
\* line 71
Consume(rn) == [rn EXCEPT !._tokens = @ - OneToken]

\* lines 78-89
CliRecordResponse(rn, status_code, elapsed) ==
    [rn EXCEPT !.total = @ + 1,
               !.total_time = @ + elapsed,
               !.success = IF IsSuccess(status_code) THEN @ + 1 ELSE @,
               !.failure = IF IsSuccess(status_code) THEN @ ELSE @ + 1,
               !.last_response = Some(<<Some(status_code), "text">>)]
\* an except branch that forgets `total += 1`
CliRecordException_lost(rn) ==
    [rn EXCEPT !.failure = @ + 1,
               !.last_response = Some(<<None, "exception: e">>)]

\* lines 90-93
CliRecordException(rn) ==
    [rn EXCEPT !.total = @ + 1,
               !.failure = @ + 1,
               !.last_response = Some(<<None, "exception: e">>)]

\* a wait loop that consumes on a check of the bucket made before another
\* acquirer ran: the token is taken whether or not it is still there
Acquire_stale(i, rn) ==
    /\ runner' = Consume(rn)
    /\ cw' = [cw EXCEPT ![i] = [pc |-> "get", wake_at |-> 0, start |-> now]]
    /\ hist' = [hist EXCEPT !.consumed_at = Some(now)]

\* the wait loop of _one (line 58) with the bucket as it is in rn: sleep
\* again, or consume a token and send the request (lines 71-77)
Acquire(i, rn) ==
    IF rn._tokens < OneToken
    THEN /\ runner' = rn
         /\ cw' = [cw EXCEPT ![i] = [pc |-> "sleep", wake_at |-> WakeAt(rn),
                                     start |-> 0]]
         /\ UNCHANGED hist
    ELSE /\ runner' = Consume(rn)
         /\ cw' = [cw EXCEPT ![i] = [pc |-> "get", wake_at |-> 0,
                                     start |-> now]]
         /\ hist' = [hist EXCEPT !.consumed_at = Some(now)]

\* Runner.run up to `await asyncio.gather(*tasks)`
run ==
    /\ shape = "cli"
    /\ main.pc = "init"
    /\ main' = [pc |-> "gather", end_time |-> now + runner.duration]
    /\ runner' = [runner EXCEPT !._tokens = 0, !._last_fill = now]
    /\ cw' = [i \in CliWorkers |->
                 IF i <= runner.concurrency
                 THEN [NoCliWorker EXCEPT !.pc = "new"] ELSE cw[i]]
    /\ UNCHANGED <<shape, now, server_vars, hist>>

\* Runner.worker from its start or from `await asyncio.sleep(0)`, into _one
\* up to its first await, or through an _one that awaits nothing, or to
\* the end of the loop
worker(i) ==
    /\ shape = "cli"
    /\ cw[i].pc \in {"new", "yield"}
    /\ IF now < main.end_time
       THEN IF runner.rps > 0
            THEN Acquire(i, Refill(runner))
            ELSE \* line 46 is false: _one returns without a request
                 /\ cw' = [cw EXCEPT ![i].pc = "yield"]
                 /\ UNCHANGED <<runner, hist>>
       ELSE /\ cw' = [cw EXCEPT ![i] = DoneCliWorker]
            /\ UNCHANGED <<runner, hist>>
    /\ UNCHANGED <<shape, now, server_vars, main>>

\* _one from the end of `await asyncio.sleep(...)` in the wait loop
one_wake(i) ==
    /\ shape = "cli"
    /\ cw[i].pc = "sleep"
    /\ now >= cw[i].wake_at
    /\ Acquire(i, RefillWaiting(runner))
    /\ UNCHANGED <<shape, now, server_vars, main>>

\* _one from the completion of `await client.get(...)` up to
\* `await asyncio.sleep(0)` in worker
one_response(i, outcome) ==
    /\ shape = "cli"
    /\ cw[i].pc = "get"
    /\ runner' = IF outcome = None
                 THEN CliRecordException(runner)
                 ELSE CliRecordResponse(runner, outcome[1], now - cw[i].start)
    /\ hist' = Noted(hist, i, now - cw[i].start)
    /\ cw' = [cw EXCEPT ![i] = [pc |-> "yield", wake_at |-> 0, start |-> 0]]
    /\ UNCHANGED <<shape, now, server_vars, main>>

\* gather returns once every worker has left its loop; the reporter is
\* cancelled and awaited, the client closed, and run returns
run_end ==
    /\ shape = "cli"
    /\ main.pc = "gather"
    /\ \A i \in CliWorkers : cw[i].pc \in {"none", "done"}
    /\ main' = [main EXCEPT !.pc = "done"]
    /\ UNCHANGED <<shape, now, server_vars, runner, cw, hist>>

(* ------------------------------- time ------------------------------- *)
Tick ==
    /\ now < (IF shape = "cli" THEN CliMaxTime ELSE MaxTime)
    \* main constructs the Runner and calls run() at once
    /\ main.pc # "init"
    /\ \A i \in CliWorkers :
           /\ cw[i].pc = "sleep" => now < cw[i].wake_at + MaxLate
           /\ cw[i].pc = "get" => now < cw[i].start + MaxLatency
    /\ now' = now + 1
    /\ resp' = NoResp
    /\ UNCHANGED <<shape, _state, _tasks, ctl, wk, nruns, hist, cli_vars, stopped>>

Init ==
    /\ now = 0
    /\ hist = NoHist
    /\ \/ shape = "server" /\ ServerInit /\ CliIdle
       \/ shape = "cli" /\ CliInit /\ ServerInit

ServerNext ==
    \/ \E c \in Concurrencies, d \in Durations : start_test(c, d)
    \/ stop_test
    \/ status
    \/ \E r \in Runs, i \in Workers : loop_worker(r, i)
    \/ \E r \in Runs, i \in Workers, o \in Outcomes : _worker(r, i, o)
    \/ \E r \in Runs : run_load_begin(r)
    \/ \E r \in Runs : run_load_gathered(r)
    \/ \E r \in Runs : run_load_finish(r)

CliNext ==
    \/ run
    \/ \E i \in CliWorkers : worker(i)
    \/ \E i \in CliWorkers : one_wake(i)
    \/ \E i \in CliWorkers, o \in Outcomes : one_response(i, o)
    \/ run_end

Next == ServerNext \/ CliNext \/ Tick

\* either program
Spec == Init /\ [][Next]_vars

\* the server alone, and the command-line runner alone
InitServer == Init /\ shape = "server"
InitCli == Init /\ shape = "cli"
NextServer == ServerNext \/ Tick
NextCli == CliNext \/ Tick
ServerSpec == InitServer /\ [][NextServer]_vars
CliSpec == InitCli /\ [][NextCli]_vars

\* The event loop resumes every task that is ready, the clock advances,
\* and every request sent completes or times out.  Requests to the server
\* (start, stop, status) may or may not come.
Fairness ==
    /\ WF_vars(Tick)
    /\ \A r \in Runs :
           /\ WF_vars(run_load_begin(r))
           /\ WF_vars(run_load_gathered(r))
           /\ WF_vars(run_load_finish(r))
    /\ \A r \in Runs, i \in Workers :
           /\ WF_vars(loop_worker(r, i))
           /\ WF_vars(\E o \in Outcomes : _worker(r, i, o))
    /\ WF_vars(run)
    /\ WF_vars(run_end)
    /\ \A i \in CliWorkers :
           /\ WF_vars(worker(i))
           /\ WF_vars(one_wake(i))
           /\ WF_vars(\E o \in Outcomes : one_response(i, o))
FairSpec == Init /\ [][Next]_vars /\ Fairness

(* ----------------------------- properties --------------------------- *)
\* C1: a /start handled while a run is Running is answered 400 and changes
\* nothing: the running flag, the counters, the cumulative latency, the
\* start time, the last outcome, _tasks and every task of the run stay as
\* they were.
StartWhileRunningRejected ==
    [][\A c \in Concurrencies, d \in Durations :
          (_state.running /\ start_test(c, d)) =>
              /\ resp'.code = 400
              /\ UNCHANGED <<_state, _tasks, ctl, wk, nruns, hist>>]_vars

\* a start was refused while the run had counted a request and had a
\* request in flight
StartWhileRunningSeen ==
    /\ resp.op = "start" /\ resp.code = 400
    /\ _state.running /\ _state.total_requests > 0
    /\ \E i \in Workers : wk[nruns][i].pc = "get"

\* C2: a /stop handled while no run is Running is answered 400 and changes
\* nothing, the recorded end time and the counters included.
StopWhileNotRunningRejected ==
    [][(~_state.running /\ stop_test) =>
          /\ resp'.code = 400
          /\ UNCHANGED <<_state, _tasks, ctl, wk, nruns, hist>>]_vars

\* a stop was refused after an accepted stop of a run that had counted a
\* request, before any task of that run had noticed its cancellation
StopWhileNotRunningSeen ==
    /\ resp.op = "stop" /\ resp.code = 400
    /\ nruns \in stopped
    /\ _state.end_time # None /\ _state.total_requests > 0
    /\ ctl[nruns].must_cancel
    /\ \E i \in Workers : wk[nruns][i].must_cancel

\* C3: an accepted /stop leaves running false at once, and from then on no
\* worker of the stopped run sends a request, wherever it was in its loop.
StopPrompt ==
    [][/\ (_state.running /\ stop_test) => ~_state'.running
       /\ \A r \in stopped, i \in Workers :
              wk'[r][i].pc = "get" => wk[r][i].pc = "get"]_vars

\* a stop was just accepted with one worker of the run waiting for its
\* response and another at its yield between two iterations
StopPromptSeen ==
    /\ resp.op = "stop" /\ resp.code = 200
    /\ ~_state.running /\ nruns \in stopped
    /\ \E i, j \in Workers :
           /\ wk[nruns][i].pc = "get" /\ wk[nruns][i].must_cancel
           /\ wk[nruns][j].pc = "yield" /\ wk[nruns][j].must_cancel

\* C4: counter conservation.  Every state is one a status() or reporter read
\* can observe (the tasks are at their awaits): total = success + failure,
\* in the server and in the command-line runner.
CounterConservation ==
    /\ _state.total_requests = _state.success + _state.failure
    /\ runner.total = runner.success + runner.failure

\* the server has counted a success and a failure while both workers of the
\* run wait for further responses
CounterConservationSeen ==
    /\ shape = "server"
    /\ _state.success > 0 /\ _state.failure > 0
    /\ \A i \in Workers : wk[nruns][i].pc = "get" /\ ~wk[nruns][i].must_cancel

Sum(f, S) ==
    LET RECURSIVE sum(_)
        sum(T) == IF T = {} THEN 0
                  ELSE LET x == CHOOSE y \in T : TRUE IN f[x] + sum(T \ {x})
    IN sum(S)

\* C5: no lost updates.  total is the number of requests the workers have
\* completed in the current run, under every interleaving; so N workers
\* that completed k requests each leave total = N * k.
NoLostUpdates ==
    /\ shape = "server" =>
        /\ _state.total_requests = Sum(hist.completed, Workers)
        /\ \A N \in 1..MaxConc, k \in 0..MaxIter :
               (\A i \in Workers : hist.completed[i] = IF i <= N THEN k ELSE 0)
                   => _state.total_requests = N * k
    /\ shape = "cli" =>
        /\ runner.total = Sum(hist.completed, CliWorkers)
        /\ \A N \in 1..CliMaxConc, k \in 0..CliMaxTime :
               (\A i \in CliWorkers : hist.completed[i] = IF i <= N THEN k ELSE 0)
                   => runner.total = N * k

\* both workers of a server run completed two requests each
NoLostUpdatesSeen ==
    /\ shape = "server"
    /\ \A i \in Workers : hist.completed[i] = 2
    /\ _state.total_requests = 4

\* requests of the command-line run sent so far
Issued == runner.total + Cardinality({i \in CliWorkers : cw[i].pc = "get"})

\* C6: rate ceiling.  With rps > 0 a command-line run of duration D sends at
\* most ceil(rps * D) + rps * 2 requests (rps is in half requests per
\* second here, so rps * 2 is runner.rps and rps * D is runner.rps * D / 2).
RateCeiling ==
    (shape = "cli" /\ runner.rps > 0 /\ runner.duration > 0)
        => Issued <= CeilDiv(runner.rps * runner.duration, 2) + runner.rps

\* C7: unlimited mode.  With rps = 0 every iteration of a worker loop that
\* is entered before the deadline sends a request.
UnlimitedModeIssues ==
    [][\A i \in CliWorkers :
          (runner.rps = 0 /\ now < main.end_time /\ worker(i))
              => cw'[i].pc = "get"]_vars

\* C8: a transport failure is recorded as a failed outcome and ends
\* nothing: total and failure grow by one, success stays, the last outcome
\* has no status and a non-empty body, the worker goes on to its yield and
\* the next iteration, and no other task and no lifecycle field is touched.
TransportFailureIsData ==
    [][/\ \A r \in Runs, i \in Workers :
            (~wk[r][i].must_cancel /\ _worker(r, i, None)) =>
                /\ _state'.total_requests = _state.total_requests + 1
                /\ _state'.failure = _state.failure + 1
                /\ _state'.success = _state.success
                /\ _state'.last_response # None
                /\ _state'.last_response[1].status_code = None
                /\ _state'.last_response[1].body # ""
                /\ _state'.running = _state.running
                /\ wk'[r][i].pc = "yield"
                /\ \A q \in Runs, j \in Workers :
                       <<q, j>> # <<r, i>> => wk'[q][j] = wk[q][j]
                /\ UNCHANGED <<ctl, _tasks>>
       /\ \A i \in CliWorkers :
            one_response(i, None) =>
                /\ runner'.total = runner.total + 1
                /\ runner'.failure = runner.failure + 1
                /\ runner'.success = runner.success
                /\ runner'.last_response # None
                /\ runner'.last_response[1][1] = None
                /\ runner'.last_response[1][2] # ""
                /\ cw'[i].pc = "yield"
                /\ \A j \in CliWorkers : j # i => cw'[j] = cw[j]
                /\ UNCHANGED main]_vars

\* every request of a server run failed in transport; a worker that met
\* such a failure has sent its next request and the other worker waits too
TransportFailureSeen ==
    /\ shape = "server" /\ _state.running
    /\ _state.failure = _state.total_requests /\ _state.success = 0
    /\ _state.total_requests >= 2
    /\ _state.last_response = Some([status_code |-> None, body |-> "exception"])
    /\ \E i, j \in Workers :
           /\ i # j
           /\ wk[nruns][i].pc = "get" /\ wk[nruns][i].n > 0
           /\ wk[nruns][j].pc = "get"

\* C9: a /start with concurrency < 1 or duration <= 0 is refused and
\* begins no run: _state is not reset, running does not become true, and no
\* task is created.
InvalidConfigRejected ==
    [][\A c \in Concurrencies, d \in Durations :
          ((c < 1 \/ d <= 0) /\ start_test(c, d)) =>
              /\ resp'.code # 200
              /\ UNCHANGED <<_state, _tasks, ctl, wk, nruns>>]_vars

\* C10: the cumulative latency is the sum of the latencies of all requests
\* counted in total, failed ones included.
LatencyOfAllCounted ==
    /\ shape = "server" => _state.total_time = hist.latency
    /\ shape = "cli" => runner.total_time = hist.latency

\* worker i takes a token out of the bucket in this step (line 71)
Consumes(i) == cw[i].pc # "get" /\ cw'[i].pc = "get"

Capacity(rn) == Max(rn.rps * 2, OneToken)

\* C13: token bucket cap.  In a run with rps > 0 the bucket never holds more
\* than max(rps * 2, 1) tokens: not after the refill on entering an acquire
\* and not after a refill in the wait loop, whenever the sleeper wakes.
TokenBucketCap ==
    [][\A i \in CliWorkers :
          /\ (runner.rps > 0 /\ now < main.end_time /\ worker(i))
                => Refill(runner)._tokens <= Capacity(runner)
          /\ (runner.rps > 0 /\ one_wake(i))
                => RefillWaiting(runner)._tokens <= Capacity(runner)]_vars

\* C14: no token over-consumption.  The bucket is never negative, and the
\* tokens consumed plus the tokens left never exceed the tokens the elapsed
\* time of the run has produced: no token is consumed twice.
NoOverConsumption ==
    (shape = "cli" /\ main.pc # "init") =>
        /\ runner._tokens >= 0
        /\ Issued * OneToken + runner._tokens
               <= runner.rps
                    * (runner._last_fill - (main.end_time - runner.duration))

\* two acquirers looked at the bucket at the same clock reading: one took
\* the only token, the other found less than one and sleeps
ContendedTokenSeen ==
    /\ shape = "cli"
    /\ runner._last_fill = now
    /\ runner._tokens < OneToken
    /\ hist.consumed_at = Some(now)
    /\ \E i, j \in CliWorkers :
           /\ cw[i].pc = "get" /\ cw[i].start = now
           /\ cw[j].pc = "sleep" /\ cw[j].wake_at > now

\* the requests sent whose worker has not resumed yet
InFlight ==
    Cardinality({t \in Runs \X Workers : wk[t[1]][t[2]].pc = "get"})
CliInFlight == Cardinality({i \in CliWorkers : cw[i].pc = "get"})

\* C15: at every moment the number of requests in flight is at most the
\* concurrency of the current run, in the command-line runner and in the
\* server, also after a stop followed by a new start (runs started with
\* a concurrency below 1 are left aside).
InFlightBounded ==
    /\ (shape = "server" /\ nruns > 0 /\ ctl[nruns].concurrency >= 1)
          => InFlight <= ctl[nruns].concurrency
    /\ shape = "cli" => CliInFlight <= runner.concurrency

\* C16: a /start handled while no run is Running is accepted and resets the
\* run: when it returns running is true, total, success, failure and the
\* cumulative latency are 0, there is no last outcome and no end time, and
\* the start time is the time of the call.
StartResets ==
    [][\A c \in Concurrencies, d \in Durations :
          (~_state.running /\ start_test(c, d)) =>
              /\ resp'.code = 200
              /\ _state'.running
              /\ _state'.total_requests = 0
              /\ _state'.success = 0
              /\ _state'.failure = 0
              /\ _state'.total_time = 0
              /\ _state'.last_response = None
              /\ _state'.end_time = None
              /\ _state'.start_time = Some(now)]_vars

\* a second run has just been started, later than the first one, after the
\* first one was stopped
RestartSeen ==
    /\ shape = "server"
    /\ nruns = 2
    /\ 1 \in stopped
    /\ resp.op = "start" /\ resp.code = 200
    /\ _state.running
    /\ _state.start_time = Some(now)
    /\ now > 0

\* C17: counts are monotone within a run.  In every step that is not an
\* accepted start (worker steps, status reads, stops, rejected starts, time
\* passing), total, success and failure do not decrease, in the server and
\* in the command-line runner.
CountsMonotone ==
    [][/\ nruns' = nruns =>
            /\ _state'.total_requests >= _state.total_requests
            /\ _state'.success >= _state.success
            /\ _state'.failure >= _state.failure
       /\ runner'.total >= runner.total
       /\ runner'.success >= runner.success
       /\ runner'.failure >= runner.failure]_vars

\* a start has just been refused in a run that has counted a success and a
\* failure
CountsKeptSeen ==
    /\ shape = "server"
    /\ resp.op = "start" /\ resp.code = 400
    /\ _state.success >= 1
    /\ _state.failure >= 1
    /\ _state.total_requests >= 2

\* C18: a run is ended only by its own deadline or by a stop request.  A
\* step that takes running from true to false, or sets the end time, is an
\* accepted stop or the end of the controller of the current run after all
\* its workers are done; never a step of the controller of an earlier run.
EndedByOwnDeadlineOrStop ==
    [][(_state.running /\ (~_state'.running \/ _state'.end_time # None)) =>
          \/ stop_test
          \/ /\ run_load_finish(nruns)
             /\ \A i \in WorkersOf(nruns) : wk[nruns][i].pc = "done"]_vars

\* the statistics of the server: the counters, the cumulative latency and
\* the last outcome
Stats ==
    <<_state.total_requests, _state.success, _state.failure,
      _state.total_time, _state.last_response>>

\* C19: runs do not contaminate each other's statistics.  A step that
\* changes the statistics is an accepted start or a worker of the current
\* run recording an outcome while that run has not been stopped: after an
\* accepted stop the statistics are frozen until the next start, and no
\* worker of an earlier run writes into a later one.
StatsNotContaminated ==
    [][Stats' # Stats =>
          \/ nruns' # nruns
          \/ /\ nruns \notin stopped
             /\ \E i \in Workers, o \in Outcomes : _worker(nruns, i, o)]_vars

\* the first run was stopped with a request in flight whose worker has not
\* resumed yet, and the second run has already counted an outcome
StoppedWorkerPendingSeen ==
    /\ shape = "server"
    /\ nruns = 2
    /\ 1 \in stopped
    /\ \E i \in Workers : wk[1][i].pc = "get" /\ wk[1][i].must_cancel
    /\ _state.total_requests >= 1

\* worker i of run r of the server sends a request in this step (line 98)
Sends(r, i) == wk[r][i].pc # "get" /\ wk'[r][i].pc = "get"

\* C20: no request is issued after the deadline.  Every request of a run is
\* sent at a time strictly before start + duration, in the command-line
\* runner (also after a wait in the rate limiter) and in the server.
NoRequestAfterDeadline ==
    [][/\ \A i \in CliWorkers : Consumes(i) => now < main.end_time
       /\ \A r \in Runs, i \in Workers :
             Sends(r, i) => now < ctl[r].end_time]_vars

\* the current run of the server is under way, or its controller has
\* ended, and its deadline is a time the clock reaches
RunUnderWay ==
    /\ shape = "server"
    /\ _state.running
    /\ nruns > 0
    /\ ctl[nruns].pc # "new"
    /\ ctl[nruns].end_time <= MaxTime

\* C12: every run ends.  With time advancing and every request completing,
\* a run of the server that is not stopped comes to running = false with
\* its end time recorded, and run() of the command-line runner returns.
EveryRunEnds ==
    /\ RunUnderWay ~> (~_state.running /\ _state.end_time # None)
    /\ (shape = "cli" /\ main.pc = "gather") ~> main.pc = "done"
=============================================================================
